---- MODULE Spec2Model ----
(***************************************************************************)
(* Biriyani Hunter: the spot lifecycle and moderation engine.              *)
(*                                                                         *)
(* The persisted store is the remote database (tables locations and        *)
(* votes); each client is one running instance of App (src/src/App.jsx)    *)
(* with its React state.  An awaited database call is modelled as the      *)
(* steps the code really takes: the handler runs up to the await, the      *)
(* database executes the statement(s), the continuation runs.              *)
(***************************************************************************)
EXTENDS Integers, FiniteSets, Sequences, TLC

\* ---------------------------------------------------------------- bounds
MaxInFlight == 2      \* handleVote invocations awaiting their batch at once
MaxCasts == 2         \* handleVote invocations in one run
MaxVotes == 22        \* counter range explored for the marker rendering
MaxTicks == 1         \* seconds that pass in one run
MaxClicks == 2        \* clicks on the date buttons in one run
MaxAdds == 1          \* handleAddSubmit invocations that pass the name check in one run
MaxMoves == 3         \* moveend events of the map in one run
MaxSends == 2         \* clicks on the send button of the comment box in one run

\* ------------------------------------------------------ program constants
FakeMargin == 5       \* isFake: downvotes - upvotes >= 5
SpamThreshold == 10   \* isSpam: downvotes >= 10
DeleteThreshold == 20 \* shouldDelete: downvotes >= 20

Spots == {"s1", "s2"}
Users == {"u1", "u2"}
Clients == {"c1", "c2"}
Dirs == {"up", "down"}
NoVote == "none"

Yesterday == 1
Today == 2
DateButtons == {Yesterday, Today}
NoExpiry == 0         \* expiry_date IS NULL
EmptyExpiry == -1     \* expiry_date = '' (sorts before every date)

\* Time is counted in seconds; TicksPerDay of them make one UTC day, and a run
\* starts in the last second of Today, so that it can cross midnight.
\* toISOString().split('T')[0] of a moment:
TicksPerDay == 2
DayOf(t) == t \div TicksPerDay
FirstTick == Today * TicksPerDay + 1
Days == Yesterday .. (DayOf(FirstTick + MaxTicks) + 1)

\* names typed into the form; String.prototype.trim on them
Names == {"", " ", "Haji Biriyani"}
TrimNone(n) == n
Trim(n) == IF n = " " THEN "" ELSE n

\* toasts of handleAddSubmit: "নাম দিন!", "সফলভাবে যোগ করা হয়েছে", "ব্যর্থ হয়েছে"
NoToast == "null"
ToastName == "name required"
ToastAdded == "added"
ToastFailed == "failed"
\* toast of a click on a suggestion: "🕌 ... এ খাবার যোগ করুন"
ToastSuggest == "add food here"
\* toast of the send button of the comment box: "যোগ হয়েছে"
ToastComment == "comment added"

\* texts typed into the comment box, and selectedLocation = null
CommentTexts == {"", " ", "Tasty"}
NoSelection == "null"

\* area labels: one found by the reverse geocoder, and the fallback "ঢাকা"
Suburb == "suburb"
FallbackArea == "Dhaka"

\* The map along one street: positions 250 m apart, two mosques on it.  A
\* viewport shows its centre and the positions next to it.
Positions == 0..3
Distance(p, q) == 250 * (IF p >= q THEN p - q ELSE q - p)
RefetchDistance == 500
NoCenter == -1
Mosques == {"mosque-0", "mosque-3"}
MosquePos(m) == IF m = "mosque-0" THEN 0 ELSE 3
\* the elements the Overpass query returns for the bounds of a viewport
Feed(p) == {m \in Mosques : Distance(MosquePos(m), p) <= 250}

\* Coordinates are counted in units of 0.00001 degree.  The street runs along
\* latitude 0; 250 m of it are LngPer250m units of longitude.
LngPer250m == 245
PosCoord(p) == [lat |-> 0, lng |-> LngPer250m * p]
\* lat: el.lat || el.center.lat, lng: el.lon || el.center.lon, name: el.tags.name
MosqueCoord(m) == PosCoord(MosquePos(m))
MosqueName(m) == IF m = "mosque-0" THEN "Baitul Mukarram" ELSE "Star Mosque"
\* Math.abs and the literal 0.0001 of the suggestion render
Abs(x) == IF x >= 0 THEN x ELSE 0 - x
DedupeEpsilon == 10

VARIABLES
  locations,     \* table locations: spot id -> row
  votes,         \* table votes: <<location_id, user_id, vote_type>> -> number of rows
  others,        \* rows of table votes held by user ids that run no client here
  userOf,        \* localStorage bzone_user_id of each client
  voteCounts,    \* React state voteCounts of each client
  shown,         \* React state locations of each client (rows of the last read)
  selectedDate,  \* React state selectedDate of each client
  syncs,         \* syncVotes of each client: its position and the rows it read
  fetches,       \* fetchLocations requests in flight: client -> date -> count
  casts,         \* handleVote invocations in flight
  ncasts,        \* handleVote invocations started so far
  probe,         \* history: the first two casts of the run and the state before them
  reached,       \* history: spots whose stored downvotes have reached DeleteThreshold
  upvotes, downvotes, marker,  \* getMarkerIcon / marker render: arguments and result
  clock,         \* the current time in seconds (new Date(), datetime('now'))
  listed,        \* order of the rows of React state locations of each client
  nclicks,       \* clicks on the date buttons so far
  newLocation,   \* React state newLocation of each client (name, expiry_date)
  showAddForm,   \* React state showAddForm of each client
  addFlowStep,   \* React state addFlowStep of each client
  addedIds,      \* React state addedIds of each client
  toast,         \* the last message the add flow showed on each client
  adds,          \* handleAddSubmit invocations in flight
  nadds,         \* handleAddSubmit invocations that passed the name check so far
  mapPos,        \* map.getCenter() of each client
  mapCenter,     \* React state mapCenter of each client (where a new spot is put)
  lastCenter,    \* lastCenter.current of each client's MosqueDetector
  detectedMosques, \* React state detectedMosques of each client
  mosqueFetches, \* fetchMosques requests in flight
  overpassLog,   \* console.error("Overpass error:") lines of each client
  nmoves,        \* moveend events so far
  comments,      \* table comments: rows [location_id, text]
  selectedLocation, \* React state selectedLocation of each client (the spot's id)
  newComment,    \* React state newComment of each client
  nsends         \* clicks on the send button so far

dbvars == <<locations, votes, others>>
clientvars == <<userOf, voteCounts, shown, listed, selectedDate, syncs, fetches>>
rendervars == <<upvotes, downvotes, marker>>
formvars == <<newLocation, showAddForm, addFlowStep, addedIds, toast>>
feedvars == <<mapPos, mapCenter, lastCenter, detectedMosques, mosqueFetches,
              overpassLog, nmoves>>
lifevars == <<clock, nclicks, newLocation, showAddForm, addFlowStep, addedIds, toast,
              adds, nadds>>
commentvars == <<comments, selectedLocation, newComment, nsends>>
histvars == <<probe, reached>>
vars == <<locations, votes, others, userOf, voteCounts, shown, listed, selectedDate,
          syncs, fetches, casts, ncasts, probe, reached, upvotes, downvotes, marker,
          clock, listed, nclicks, newLocation, showAddForm, addFlowStep, addedIds,
          toast, adds, nadds, mapPos, mapCenter, lastCenter, detectedMosques,
          mosqueFetches, overpassLog, nmoves, comments, selectedLocation, newComment,
          nsends>>

\* ------------------------------------------------------------ moderation
isFakeStrict(up, down) == down - up > FakeMargin
isFake(up, down) == down - up >= FakeMargin
isSpam(down) == down >= SpamThreshold
shouldDelete(down) == down >= DeleteThreshold

\* The marker with the blur decided on the net score.
MarkerRenderNet(up, down) ==
  IF shouldDelete(down)
    THEN [rendered |-> FALSE, blurred |-> FALSE, red |-> FALSE]
    ELSE [rendered |-> TRUE, blurred |-> down - up >= SpamThreshold,
          red |-> isFake(up, down)]

\* The marker of one row as the map renders it: no marker at all when
\* shouldDelete, a blurred popup when isSpam, a red pin when isFake.
MarkerRender(up, down) ==
  IF shouldDelete(down)
    THEN [rendered |-> FALSE, blurred |-> FALSE, red |-> FALSE]
    ELSE [rendered |-> TRUE, blurred |-> isSpam(down), red |-> isFake(up, down)]

\* ListingCard: always rendered, blur overlay at 10 downvotes.
ListingCardRender(down) == [rendered |-> TRUE, blurred |-> down >= SpamThreshold]

\* -------------------------------------------------------------- database
Field(type) == IF type = "up" THEN "upvotes" ELSE "downvotes"
Opposite(type) == IF type = "up" THEN "down" ELSE "up"

Inc(x) == x + 1
DecUnclamped(x) == x - 1
\* SQL MAX(0, x - 1)
Dec(x) == IF x - 1 > 0 THEN x - 1 ELSE 0

VoteKeys == Spots \X Users \X Dirs
RowsOf(s, u) == votes[<<s, u, "up">>] + votes[<<s, u, "down">>]
RECURSIVE CountRows(_, _, _)
CountRows(s, type, us) ==
  IF us = {} THEN 0
  ELSE LET u == CHOOSE x \in us : TRUE
       IN votes[<<s, u, type>>] + CountRows(s, type, us \ {u})
\* count(votes where location_id = s and vote_type = type)
RowsOfType(s, type) == CountRows(s, type, Users) + others[s][Field(type)]

\* The filter with the expiry day itself excluded.
VisibleStrict(row, d) ==
  row.date <= d /\ (row.expiry_date > d \/ row.expiry_date = EmptyExpiry
                                        \/ row.expiry_date = NoExpiry)

\* WHERE date <= ? AND (expiry_date >= ? OR expiry_date = '' OR expiry_date IS NULL)
Visible(row, d) ==
  row.date <= d /\ (row.expiry_date >= d \/ row.expiry_date = EmptyExpiry
                                         \/ row.expiry_date = NoExpiry)

SelectLocations(d) ==
  [s \in {x \in DOMAIN locations : Visible(locations[x], d)} |-> locations[s]]

\* ORDER BY created_at DESC: the orders in which the selected rows may come
\* back.  created_at has the resolution of one second and the statement names
\* no second key, so rows of the same second come in either order.
OrderByCreatedAtDesc(d) ==
  LET S == DOMAIN SelectLocations(d)
  IN {q \in [1..Cardinality(S) -> S] :
        \A i, j \in 1..Cardinality(S) :
          i < j => /\ q[i] # q[j]
                   /\ locations[q[i]].created_at >= locations[q[j]].created_at}

\* ---------------------------------------------------------------- render
Markers(c) == {s \in DOMAIN shown[c] :
                 MarkerRender(shown[c][s].upvotes, shown[c][s].downvotes).rendered}
ListCards(c) == {s \in DOMAIN shown[c] :
                   ListingCardRender(shown[c][s].downvotes).rendered}

\* ------------------------------------------------------------------ Init
\* The store at the start: s1 has no votes yet, s2 is one downvote short of
\* the delete threshold, its votes cast by user ids that run no client here.
InitRow(s) == [upvotes |-> 0,
               downvotes |-> IF s = "s1" THEN 0 ELSE DeleteThreshold - 1,
               date |-> Yesterday, expiry_date |-> Today,
               name |-> "Haji Biriyani", area |-> Suburb,
               lat |-> 300, lng |-> IF s = "s1" THEN 0 ELSE 100,
               created_at |-> IF s = "s1" THEN Yesterday * TicksPerDay
                              ELSE Yesterday * TicksPerDay + 1,
               rowid |-> IF s = "s1" THEN 1 ELSE 2]

NoCache == [s \in Spots |-> NoVote]
NoFetch == [d \in Days |-> 0]
NoProbe == [stage |-> "none", user |-> "", id |-> "", first |-> NoVote,
            second |-> NoVote, upvotes |-> 0, downvotes |-> 0]
VoidProbe == [NoProbe EXCEPT !.stage = "void"]

\* The clock, the add form and the submissions at the start: the form is
\* closed and empty, its expiry_date is the day the app was mounted.
InitForm ==
  /\ clock = FirstTick
  /\ nclicks = 0
  /\ newLocation = [c \in Clients |-> [name |-> "", expiry_date |-> DayOf(FirstTick)]]
  /\ showAddForm = [c \in Clients |-> FALSE]
  /\ addFlowStep = [c \in Clients |-> "location"]
  /\ addedIds = [c \in Clients |-> << >>]
  /\ toast = [c \in Clients |-> NoToast]
  /\ adds = {}
  /\ nadds = 0

\* Table comments is empty (initDb creates it, nothing fills it); no detail
\* sheet is open and the comment box is empty.
InitComments ==
  /\ comments = {}
  /\ selectedLocation = [c \in Clients |-> NoSelection]
  /\ newComment = [c \in Clients |-> ""]
  /\ nsends = 0

\* The map and the MosqueDetector before the mount effect has been answered:
\* no suggestion yet, nothing in flight.
InitMap ==
  /\ mapPos = [c \in Clients |-> 0]
  /\ mapCenter = [c \in Clients |-> PosCoord(0)]
  /\ lastCenter = [c \in Clients |-> NoCenter]
  /\ detectedMosques = [c \in Clients |-> {}]
  /\ mosqueFetches = {}
  /\ overpassLog = [c \in Clients |-> 0]
  /\ nmoves = 0

\* Two clients.  c1 has been running for a while: its first read and its
\* syncVotes are done, and it may already have cast an upvote on s1.  c2 has
\* just been opened, either in the same browser profile (it shares c1's
\* bzone_user_id) or by another user; its first read and its syncVotes are in
\* flight and its voteCounts comes from localStorage userVotes, which c1's
\* effect keeps equal to c1's voteCounts when the profile is shared.
Init ==
  /\ \E voted \in BOOLEAN :
       /\ locations = [s \in Spots |->
            IF voted /\ s = "s1" THEN [InitRow(s) EXCEPT !.upvotes = Inc(@)]
            ELSE InitRow(s)]
       /\ votes = [k \in VoteKeys |->
            IF voted /\ k = <<"s1", "u1", "up">> THEN 1 ELSE 0]
       /\ \E shared \in BOOLEAN :
            /\ userOf = [c \in Clients |-> IF c = "c1" \/ shared THEN "u1" ELSE "u2"]
            /\ voteCounts = [c \in Clients |->
                 IF voted /\ (c = "c1" \/ shared)
                   THEN [NoCache EXCEPT !["s1"] = "up"] ELSE NoCache]
  /\ others = [s \in Spots |-> [upvotes |-> InitRow(s).upvotes,
                                downvotes |-> InitRow(s).downvotes]]
  /\ shown = [c \in Clients |-> IF c = "c1" THEN SelectLocations(Today) ELSE << >>]
  /\ listed \in [Clients -> OrderByCreatedAtDesc(Today) \cup {<< >>}]
  /\ \A c \in Clients : Len(listed[c]) = Cardinality(DOMAIN shown[c])
  /\ selectedDate = [c \in Clients |-> Today]
  /\ syncs = [c \in Clients |->
               [stage |-> IF c = "c1" THEN "done" ELSE "pending", rows |-> NoCache]]
  /\ fetches = [c \in Clients |-> IF c = "c1" THEN NoFetch
                                   ELSE [NoFetch EXCEPT ![Today] = 1]]
  /\ casts = {}
  /\ ncasts = 0
  /\ probe = NoProbe
  /\ reached = {}
  /\ upvotes = 0 /\ downvotes = 0 /\ marker = << >>
  /\ InitForm
  /\ InitComments
  /\ InitMap

\* ------------------------------------------------------------- syncVotes
\* The SELECT of syncVotes executes.  The rows are folded into an object
\* keyed by location_id, so of several rows of one spot the last one read
\* wins; the statement has no ORDER BY, so any of them may be the last.
SyncRows(u) ==
  {m \in [Spots -> Dirs \cup {NoVote}] :
     \A s \in Spots : IF RowsOf(s, u) = 0 THEN m[s] = NoVote
                      ELSE m[s] \in Dirs /\ votes[<<s, u, m[s]>>] > 0}

SyncVotesRead(c) ==
  /\ syncs[c].stage = "pending"
  /\ \E m \in SyncRows(userOf[c]) :
       syncs' = [syncs EXCEPT ![c] = [stage |-> "read", rows |-> m]]
  /\ UNCHANGED <<dbvars, userOf, voteCounts, shown, listed, selectedDate, fetches,
                 casts, ncasts, rendervars, lifevars,
                 feedvars,
                 commentvars>>

\* setVoteCounts(votes)
SyncVotesDone(c) ==
  /\ syncs[c].stage = "read"
  /\ voteCounts' = [voteCounts EXCEPT ![c] = syncs[c].rows]
  /\ syncs' = [syncs EXCEPT ![c] = [stage |-> "done", rows |-> NoCache]]
  /\ UNCHANGED <<dbvars, userOf, shown, listed, selectedDate, fetches, casts, ncasts,
                 rendervars, lifevars,
                 feedvars,
                 commentvars>>

\* catch (e) { console.error(e) }
SyncVotesFail(c) ==
  /\ syncs[c].stage = "pending"
  /\ syncs' = [syncs EXCEPT ![c] = [stage |-> "done", rows |-> NoCache]]
  /\ UNCHANGED <<dbvars, userOf, voteCounts, shown, listed, selectedDate, fetches,
                 casts, ncasts, rendervars, lifevars,
                 feedvars,
                 commentvars>>

\* -------------------------------------------------------- fetchLocations
\* The SELECT executes and setLocations(result.rows) runs.
FetchLocationsDone(c, d) ==
  /\ fetches[c][d] > 0
  /\ shown' = [shown EXCEPT ![c] = SelectLocations(d)]
  /\ \E q \in OrderByCreatedAtDesc(d) : listed' = [listed EXCEPT ![c] = q]
  /\ fetches' = [fetches EXCEPT ![c][d] = @ - 1]
  /\ UNCHANGED <<dbvars, userOf, voteCounts, selectedDate, syncs, casts,
                 ncasts, rendervars, lifevars,
                 feedvars,
                 commentvars>>

\* catch (e) { console.error(e) }: the displayed rows stay as they are
FetchLocationsFail(c, d) ==
  /\ fetches[c][d] > 0
  /\ fetches' = [fetches EXCEPT ![c][d] = @ - 1]
  /\ UNCHANGED <<dbvars, userOf, voteCounts, shown, listed, selectedDate, syncs,
                 casts, ncasts, rendervars, lifevars,
                 feedvars,
                 commentvars>>

\* ------------------------------------------------------------ handleVote
\* The branch handleVote takes, decided from the client's voteCounts.
Branch(currentVote, type) ==
  IF currentVote = type THEN "remove"
  ELSE IF currentVote # NoVote THEN "change"
  ELSE "new"

\* handleVote up to its await: reads voteCounts[id] and the user id, picks the
\* branch and sends the batch.  The vote buttons are in the popup of a marker
\* (the detail sheet, which repeats them for the selected spot, is opened from
\* that popup).
HandleVote(c, id, type) ==
  /\ id \in Markers(c)
  /\ ncasts < MaxCasts
  /\ Cardinality(casts) < MaxInFlight
  /\ ncasts' = ncasts + 1
  /\ casts' = casts \cup
       {[n |-> ncasts + 1, client |-> c, id |-> id, type |-> type,
         currentVote |-> voteCounts[c][id], userId |-> userOf[c],
         date |-> selectedDate[c], stage |-> "sent"]}
  /\ UNCHANGED <<dbvars, clientvars, rendervars, lifevars,
                 feedvars,
                 commentvars>>

\* The counters written from the row the client displays, not from the stored one.
UpdateLocationsRowFromShown(k, row) ==
  LET seen == IF k.id \in DOMAIN shown[k.client] THEN shown[k.client][k.id] ELSE row
      branch == Branch(k.currentVote, k.type)
  IN
  IF branch = "remove"
    THEN [row EXCEPT ![Field(k.type)] = Dec(seen[Field(k.type)])]
  ELSE IF branch = "change"
    THEN [row EXCEPT ![Field(k.currentVote)] = Dec(seen[Field(k.currentVote)]),
                     ![Field(k.type)] = Inc(seen[Field(k.type)])]
  ELSE [row EXCEPT ![Field(k.type)] = Inc(seen[Field(k.type)])]

\* UPDATE locations ... WHERE id = ?  (first statement of each batch)
UpdateLocationsRow(k, row) ==
  LET branch == Branch(k.currentVote, k.type) IN
  IF branch = "remove"
    THEN [row EXCEPT ![Field(k.type)] = Dec(@)]
  ELSE IF branch = "change"
    THEN [row EXCEPT ![Field(k.currentVote)] = Dec(@), ![Field(k.type)] = Inc(@)]
  ELSE [row EXCEPT ![Field(k.type)] = Inc(@)]

\* DELETE / UPDATE / INSERT on votes (second statement of each batch).  The
\* table has no key on (location_id, user_id): src/src/db.js declares none.
UpdateVotes(k, tbl) ==
  LET branch == Branch(k.currentVote, k.type)
      mine == <<k.id, k.userId, k.type>>
      other == <<k.id, k.userId, Opposite(k.type)>>
  IN
  IF branch = "remove"
    THEN [tbl EXCEPT ![mine] = 0, ![other] = 0]
  ELSE IF branch = "change"
    THEN [tbl EXCEPT ![mine] = tbl[mine] + tbl[other], ![other] = 0]
  ELSE [tbl EXCEPT ![mine] = @ + 1]

\* db.batch executes: both statements in one transaction.
BatchCommit(k) ==
  /\ k \in casts /\ k.stage = "sent"
  /\ locations' = [locations EXCEPT ![k.id] = UpdateLocationsRow(k, @)]
  /\ votes' = UpdateVotes(k, votes)
  /\ casts' = (casts \ {k}) \cup {[k EXCEPT !.stage = "ok"]}
  /\ UNCHANGED <<others, clientvars, ncasts, rendervars, lifevars,
                 feedvars,
                 commentvars>>

\* The catch of a handler that had set the vote cache before its await and
\* does not take the entry back.
BatchFailOptimistic(k) ==
  /\ k \in casts /\ k.stage = "sent"
  /\ voteCounts' = [voteCounts EXCEPT ![k.client][k.id] =
       IF Branch(k.currentVote, k.type) = "remove" THEN NoVote ELSE k.type]
  /\ casts' = casts \ {k}
  /\ UNCHANGED <<dbvars, userOf, shown, listed, selectedDate, syncs, fetches, ncasts,
                 rendervars, lifevars,
                 feedvars,
                 commentvars>>

\* db.batch rejects: catch (e) { console.error("Vote Error:", e); showToast(...) }.
\* Nothing was written, setVoteCounts and fetchLocations() are skipped.
BatchFail(k) ==
  /\ k \in casts /\ k.stage = "sent"
  /\ casts' = casts \ {k}
  /\ UNCHANGED <<dbvars, clientvars, ncasts, rendervars, lifevars,
                 feedvars,
                 commentvars>>

\* The continuation after the await: setVoteCounts(prev => ...), toast,
\* fetchLocations() of the render the handler was created in.
HandleVoteResume(k) ==
  /\ k \in casts /\ k.stage = "ok"
  /\ voteCounts' = [voteCounts EXCEPT ![k.client][k.id] =
       IF Branch(k.currentVote, k.type) = "remove" THEN NoVote ELSE k.type]
  /\ fetches' = [fetches EXCEPT ![k.client][k.date] = @ + 1]
  /\ casts' = casts \ {k}
  /\ UNCHANGED <<dbvars, userOf, shown, listed, selectedDate, syncs, ncasts,
                 rendervars, lifevars,
                 feedvars,
                 commentvars>>

\* ------------------------------------------------------- time and dates
\* One second passes.
Tick ==
  /\ clock < FirstTick + MaxTicks
  /\ clock' = clock + 1
  /\ UNCHANGED <<dbvars, clientvars, casts, ncasts, rendervars, nclicks, formvars,
                 adds, nadds,
                 feedvars,
                 commentvars>>

\* A date button (offset -1 or 0 from the day of the render) sets selectedDate;
\* the effect on selectedDate calls fetchLocations when the date has changed.
SelectDate(c, offset) ==
  LET dateStr == DayOf(clock) + offset IN
  /\ nclicks < MaxClicks
  /\ dateStr # selectedDate[c]
  /\ nclicks' = nclicks + 1
  /\ selectedDate' = [selectedDate EXCEPT ![c] = dateStr]
  /\ fetches' = [fetches EXCEPT ![c][dateStr] = @ + 1]
  /\ UNCHANGED <<dbvars, userOf, voteCounts, shown, listed, syncs, casts, ncasts,
                 rendervars, clock, formvars, adds, nadds,
                 feedvars,
                 commentvars>>

\* ------------------------------------------------------------ add form
\* The + button: setShowAddForm(true); setAddFlowStep('location')
OpenAddForm(c) ==
  /\ ~showAddForm[c]
  /\ showAddForm' = [showAddForm EXCEPT ![c] = TRUE]
  /\ addFlowStep' = [addFlowStep EXCEPT ![c] = "location"]
  /\ UNCHANGED <<dbvars, clientvars, casts, ncasts, rendervars, clock, nclicks,
                 newLocation, addedIds, toast, adds, nadds,
                 feedvars,
                 commentvars>>

\* The confirm button of the location step: setAddFlowStep('details')
ConfirmLocation(c) ==
  /\ showAddForm[c] /\ addFlowStep[c] = "location"
  /\ addFlowStep' = [addFlowStep EXCEPT ![c] = "details"]
  /\ UNCHANGED <<dbvars, clientvars, casts, ncasts, rendervars, clock, nclicks,
                 newLocation, showAddForm, addedIds, toast, adds, nadds,
                 feedvars,
                 commentvars>>

\* The back arrow of the details sheet: setAddFlowStep('location')
BackToLocation(c) ==
  /\ showAddForm[c] /\ addFlowStep[c] = "details"
  /\ addFlowStep' = [addFlowStep EXCEPT ![c] = "location"]
  /\ UNCHANGED <<dbvars, clientvars, casts, ncasts, rendervars, clock, nclicks,
                 newLocation, showAddForm, addedIds, toast, adds, nadds,
                 feedvars,
                 commentvars>>

\* A cancel that only hides the form.
CancelAddKeepStep(c) ==
  /\ showAddForm[c]
  /\ showAddForm' = [showAddForm EXCEPT ![c] = FALSE]
  /\ UNCHANGED <<dbvars, clientvars, casts, ncasts, rendervars, clock, nclicks,
                 newLocation, addFlowStep, addedIds, toast, adds, nadds,
                 feedvars,
                 commentvars>>

\* The cancel button and the backdrop: setShowAddForm(false); setAddFlowStep('location')
CancelAdd(c) ==
  /\ showAddForm[c]
  /\ showAddForm' = [showAddForm EXCEPT ![c] = FALSE]
  /\ addFlowStep' = [addFlowStep EXCEPT ![c] = "location"]
  /\ UNCHANGED <<dbvars, clientvars, casts, ncasts, rendervars, clock, nclicks,
                 newLocation, addedIds, toast, adds, nadds,
                 feedvars,
                 commentvars>>

\* onChange of the name input
SetName(c, n) ==
  /\ showAddForm[c] /\ addFlowStep[c] = "details"
  /\ n # newLocation[c].name
  /\ newLocation' = [newLocation EXCEPT ![c].name = n]
  /\ UNCHANGED <<dbvars, clientvars, casts, ncasts, rendervars, clock, nclicks,
                 showAddForm, addFlowStep, addedIds, toast, adds, nadds,
                 feedvars,
                 commentvars>>

\* onChange of the expiry input (type date, min today): a day from today on,
\* or the field cleared.
SetExpiry(c, e) ==
  /\ showAddForm[c] /\ addFlowStep[c] = "details"
  /\ e = EmptyExpiry \/ e >= DayOf(clock)
  /\ e # newLocation[c].expiry_date
  /\ newLocation' = [newLocation EXCEPT ![c].expiry_date = e]
  /\ UNCHANGED <<dbvars, clientvars, casts, ncasts, rendervars, clock, nclicks,
                 showAddForm, addFlowStep, addedIds, toast, adds, nadds,
                 feedvars,
                 commentvars>>
\* -------------------------------------------------------- handleAddSubmit
\* Math.random().toString(36).substr(2, 9): an id no row and no submission
\* in flight carries.
FreshIds == Spots \ (DOMAIN locations \cup {a.id : a \in adds})

\* handleAddSubmit up to its first await.  A name that is empty after trim()
\* returns with the toast.  Otherwise id and today are computed and the
\* reverse geocoder is called; newLocation and fetchLocations are those of
\* the render the handler was created in.
HandleAddSubmit(c) ==
  /\ showAddForm[c] /\ addFlowStep[c] = "details"
  /\ IF Trim(newLocation[c].name) = ""
       THEN /\ toast' = [toast EXCEPT ![c] = ToastName]
            /\ UNCHANGED <<adds, nadds>>
       ELSE /\ nadds < MaxAdds
            /\ \E id \in FreshIds :
                 adds' = adds \cup
                   {[n |-> nadds + 1, client |-> c, id |-> id,
                     today |-> DayOf(clock), name |-> newLocation[c].name,
                     expiry_date |-> newLocation[c].expiry_date,
                     center |-> mapCenter[c],
                     date |-> selectedDate[c], area |-> "", stage |-> "geocoding"]}
            /\ nadds' = nadds + 1
            /\ UNCHANGED toast
  /\ UNCHANGED <<dbvars, clientvars, casts, ncasts, rendervars, clock, nclicks,
                 newLocation, showAddForm, addFlowStep, addedIds,
                 feedvars,
                 commentvars>>

\* The geocoder answers and the answer parses:
\* area = data?.address?.suburb || ...city || ...town || "ঢাকা".  The INSERT is sent.
GeocodeRespond(a, area) ==
  /\ a \in adds /\ a.stage = "geocoding"
  /\ adds' = (adds \ {a}) \cup {[a EXCEPT !.area = area, !.stage = "inserting"]}
  /\ UNCHANGED <<dbvars, clientvars, casts, ncasts, rendervars, clock, nclicks,
                 formvars, nadds,
                 feedvars,
                 commentvars>>

\* fetch rejects or res.json() throws: both are inside the try of
\* handleAddSubmit, whose catch shows "ব্যর্থ হয়েছে"; nothing is inserted.
GeocodeFail(a) ==
  /\ a \in adds /\ a.stage = "geocoding"
  /\ adds' = adds \ {a}
  /\ toast' = [toast EXCEPT ![a.client] = ToastFailed]
  /\ UNCHANGED <<dbvars, clientvars, casts, ncasts, rendervars, clock, nclicks,
                 newLocation, showAddForm, addFlowStep, addedIds, nadds,
                 feedvars,
                 commentvars>>

\* The row the INSERT writes: lat and lng from mapCenter, date = today,
\* expiry_date = newLocation.expiry_date || today, counters and created_at
\* from the column defaults.
NewRow(a) ==
  [upvotes |-> 0, downvotes |-> 0, date |-> a.today,
   expiry_date |-> IF a.expiry_date = EmptyExpiry THEN a.today ELSE a.expiry_date,
   name |-> a.name, area |-> a.area, lat |-> a.center.lat, lng |-> a.center.lng,
   created_at |-> clock,
   rowid |-> Cardinality(DOMAIN locations) + 1]

\* INSERT INTO locations executes.
InsertCommit(a) ==
  /\ a \in adds /\ a.stage = "inserting"
  /\ a.id \notin DOMAIN locations
  /\ locations' = (a.id :> NewRow(a)) @@ locations
  /\ adds' = (adds \ {a}) \cup {[a EXCEPT !.stage = "inserted"]}
  /\ UNCHANGED <<votes, others, clientvars, casts, ncasts, rendervars, clock,
                 nclicks, formvars, nadds,
                 feedvars,
                 commentvars>>

\* db.execute rejects: catch, "ব্যর্থ হয়েছে"; nothing was written.
InsertFail(a) ==
  /\ a \in adds /\ a.stage = "inserting"
  /\ adds' = adds \ {a}
  /\ toast' = [toast EXCEPT ![a.client] = ToastFailed]
  /\ UNCHANGED <<dbvars, clientvars, casts, ncasts, rendervars, clock, nclicks,
                 newLocation, showAddForm, addFlowStep, addedIds, nadds,
                 feedvars,
                 commentvars>>

\* The continuation after the INSERT: setAddedIds, setShowAddForm(false),
\* setAddFlowStep('location'), fetchLocations(), the success toast.
\* newLocation is not reset.
HandleAddSubmitResume(a) ==
  /\ a \in adds /\ a.stage = "inserted"
  /\ addedIds' = [addedIds EXCEPT ![a.client] = Append(@, a.id)]
  /\ showAddForm' = [showAddForm EXCEPT ![a.client] = FALSE]
  /\ addFlowStep' = [addFlowStep EXCEPT ![a.client] = "location"]
  /\ fetches' = [fetches EXCEPT ![a.client][a.date] = @ + 1]
  /\ toast' = [toast EXCEPT ![a.client] = ToastAdded]
  /\ adds' = adds \ {a}
  /\ UNCHANGED <<dbvars, userOf, voteCounts, shown, listed, selectedDate, syncs,
                 casts, ncasts, rendervars, clock, nclicks, newLocation, nadds,
                 feedvars,
                 commentvars>>
\* --------------------------------------------------------- MosqueDetector
\* catch (e) { console.error("Overpass error:", e) }: what the failure of a
\* request leaves of the suggestions on display.
CatchOverpassClear(found) == {}
CatchOverpass(found) == found

\* moveend: the map has been moved to p and fetchMosques runs.  It returns
\* when the centre is less than 500 m from the last one it fetched for;
\* otherwise it records the centre and sends the Overpass query.  The
\* moveend handler of MapEvents moves the pin of the location step along.
MoveEnd(c, p) ==
  /\ nmoves < MaxMoves
  /\ p # mapPos[c]
  /\ nmoves' = nmoves + 1
  /\ mapPos' = [mapPos EXCEPT ![c] = p]
  /\ mapCenter' = IF showAddForm[c] /\ addFlowStep[c] = "location"
                    THEN [mapCenter EXCEPT ![c] = PosCoord(p)] ELSE mapCenter
  /\ IF lastCenter[c] # NoCenter /\ Distance(p, lastCenter[c]) < RefetchDistance
       THEN UNCHANGED <<lastCenter, mosqueFetches>>
       ELSE /\ lastCenter' = [lastCenter EXCEPT ![c] = p]
            /\ mosqueFetches' = mosqueFetches \cup
                 {[n |-> nmoves + 1, client |-> c, center |-> p]}
  /\ UNCHANGED <<dbvars, clientvars, casts, ncasts, rendervars, lifevars,
                 detectedMosques, overpassLog,
                 commentvars>>

\* The response arrives and parses: onMosquesFound(mosques), that is
\* setDetectedMosques, replaces the suggestions.
OverpassRespond(r) ==
  /\ r \in mosqueFetches
  /\ detectedMosques' = [detectedMosques EXCEPT ![r.client] = Feed(r.center)]
  /\ mosqueFetches' = mosqueFetches \ {r}
  /\ UNCHANGED <<dbvars, clientvars, casts, ncasts, rendervars, lifevars,
                 mapPos, mapCenter, lastCenter, overpassLog, nmoves,
                 commentvars>>

\* fetch rejects, response.json() throws or an element has no tags: the catch
\* logs the error.  lastCenter keeps the centre of the failed request.
OverpassFail(r) ==
  /\ r \in mosqueFetches
  /\ detectedMosques' = [detectedMosques EXCEPT ![r.client] = CatchOverpass(@)]
  /\ overpassLog' = [overpassLog EXCEPT ![r.client] = @ + 1]
  /\ mosqueFetches' = mosqueFetches \ {r}
  /\ UNCHANGED <<dbvars, clientvars, casts, ncasts, rendervars, lifevars,
                 mapPos, mapCenter, lastCenter, nmoves,
                 commentvars>>

\* ------------------------------------------------------------ suggestions
\* The test on the latitude alone.
alreadyAddedLatOnly(c, m) ==
  \E s \in DOMAIN shown[c] : Abs(shown[c][s].lat - MosqueCoord(m).lat) < DedupeEpsilon

\* locations.some(l => Math.abs(l.lat - mosque.lat) < 0.0001 &&
\*                     Math.abs(l.lng - mosque.lng) < 0.0001)
\* over React state locations, the rows of the last read.
alreadyAdded(c, m) ==
  \E s \in DOMAIN shown[c] :
    /\ Abs(shown[c][s].lat - MosqueCoord(m).lat) < DedupeEpsilon
    /\ Abs(shown[c][s].lng - MosqueCoord(m).lng) < DedupeEpsilon

\* The suggestion markers on the map: detectedMosques.map(...), null for
\* those alreadyAdded.
Suggestions(c) == {m \in detectedMosques[c] : ~alreadyAdded(c, m)}

\* Click on a suggestion marker: setMapCenter([mosque.lat, mosque.lng]),
\* setNewLocation({...newLocation, name: mosque.name}), setShowAddForm(true),
\* setAddFlowStep('details'), the toast.  The backdrop of the details sheet
\* covers the map.
AcceptSuggestion(c, m) ==
  /\ m \in Suggestions(c)
  /\ ~(showAddForm[c] /\ addFlowStep[c] = "details")
  /\ mapCenter' = [mapCenter EXCEPT ![c] = MosqueCoord(m)]
  /\ newLocation' = [newLocation EXCEPT ![c].name = MosqueName(m)]
  /\ showAddForm' = [showAddForm EXCEPT ![c] = TRUE]
  /\ addFlowStep' = [addFlowStep EXCEPT ![c] = "details"]
  /\ toast' = [toast EXCEPT ![c] = ToastSuggest]
  /\ UNCHANGED <<dbvars, clientvars, casts, ncasts, rendervars, clock, nclicks,
                 addedIds, adds, nadds,
                 mapPos, lastCenter, detectedMosques, mosqueFetches, overpassLog, nmoves,
                 commentvars>>

\* --------------------------------------------------------------- comments
\* The button of a marker's popup that opens the detail sheet:
\* setSelectedLocation(loc)
SelectLocation(c, id) ==
  /\ id \in Markers(c)
  /\ selectedLocation[c] # id
  /\ selectedLocation' = [selectedLocation EXCEPT ![c] = id]
  /\ UNCHANGED <<dbvars, clientvars, casts, ncasts, rendervars, lifevars, feedvars,
                 comments, newComment, nsends>>

\* The close button of the detail sheet: setSelectedLocation(null)
CloseDetail(c) ==
  /\ selectedLocation[c] # NoSelection
  /\ selectedLocation' = [selectedLocation EXCEPT ![c] = NoSelection]
  /\ UNCHANGED <<dbvars, clientvars, casts, ncasts, rendervars, lifevars, feedvars,
                 comments, newComment, nsends>>

\* onChange of the comment box of the detail sheet
SetNewComment(c, text) ==
  /\ selectedLocation[c] # NoSelection
  /\ text # newComment[c]
  /\ newComment' = [newComment EXCEPT ![c] = text]
  /\ UNCHANGED <<dbvars, clientvars, casts, ncasts, rendervars, lifevars, feedvars,
                 comments, selectedLocation, nsends>>

\* The send button of the comment box:
\* if (newComment.trim()) { showToast("যোগ হয়েছে"); setNewComment('') }
\* No statement is sent to the database.
SendComment(c) ==
  /\ selectedLocation[c] # NoSelection
  /\ nsends < MaxSends
  /\ nsends' = nsends + 1
  /\ IF Trim(newComment[c]) # ""
       THEN /\ toast' = [toast EXCEPT ![c] = ToastComment]
            /\ newComment' = [newComment EXCEPT ![c] = ""]
       ELSE UNCHANGED <<toast, newComment>>
  /\ UNCHANGED <<dbvars, clientvars, casts, ncasts, rendervars, clock, nclicks,
                 newLocation, showAddForm, addFlowStep, addedIds, adds, nadds,
                 feedvars, comments, selectedLocation>>

\* ---------------------------------------------------------------- history
\* probe follows the first two handleVote invocations of a run.  It reaches
\* stage "done" when both were cast by the same user id on the same spot, one
\* after the other (the second was started after the first had finished), and
\* both batches succeeded; upvotes/downvotes keep the spot's counters from
\* before the first cast, when the user id had no row in votes.
ProbeNext ==
  probe' =
    IF ncasts' # ncasts
      THEN LET k == CHOOSE x \in casts' : x.n = ncasts' IN
           IF ncasts = 0 /\ RowsOf(k.id, k.userId) = 0
             THEN [stage |-> "first", user |-> k.userId, id |-> k.id,
                   first |-> k.type, second |-> NoVote,
                   upvotes |-> locations[k.id].upvotes,
                   downvotes |-> locations[k.id].downvotes]
           ELSE IF probe.stage = "between" /\ k.userId = probe.user /\ k.id = probe.id
             THEN [probe EXCEPT !.stage = "second", !.second = k.type]
           ELSE VoidProbe
    ELSE IF Cardinality(casts') < Cardinality(casts)
      THEN LET k == CHOOSE x \in casts : \A y \in casts' : y.n # x.n IN
           IF k.n = 1 /\ probe.stage = "first"
             THEN IF k.stage = "ok" THEN [probe EXCEPT !.stage = "between"] ELSE VoidProbe
           ELSE IF k.n = 2 /\ probe.stage = "second"
             THEN IF k.stage = "ok" THEN [probe EXCEPT !.stage = "done"] ELSE VoidProbe
           ELSE probe
    ELSE probe

\* reached collects the spots whose stored row has had downvotes >= 20.
ReachedNext ==
  reached' = reached \cup {s \in DOMAIN locations' : shouldDelete(locations'[s].downvotes)}

\* --------------------------------------------------------- specification
Next ==
  /\ \/ \E c \in Clients : SyncVotesRead(c)
     \/ \E c \in Clients : SyncVotesDone(c)
     \/ \E c \in Clients : SyncVotesFail(c)
     \/ \E c \in Clients, d \in DateButtons : FetchLocationsDone(c, d)
     \/ \E c \in Clients, d \in DateButtons : FetchLocationsFail(c, d)
     \/ \E c \in Clients, id \in Spots, type \in Dirs : HandleVote(c, id, type)
     \/ \E k \in casts : BatchCommit(k)
     \/ \E k \in casts : BatchFail(k)
     \/ \E k \in casts : HandleVoteResume(k)
  /\ ProbeNext
  /\ ReachedNext

Spec == Init /\ [][Next]_vars

\* The marker rendering on its own: any pair of counters is rendered, and
\* users who have no vote on the spot upvote it from its popup.
InitRender ==
  /\ locations = [s \in Spots |-> [InitRow(s) EXCEPT !.downvotes = 0]]
  /\ votes = [k \in VoteKeys |-> 0]
  /\ others = [s \in Spots |-> [upvotes |-> 0, downvotes |-> 0]]
  /\ userOf = [c \in Clients |-> "u1"]
  /\ voteCounts = [c \in Clients |-> NoCache]
  /\ shown = [c \in Clients |-> << >>]
  /\ listed = [c \in Clients |-> << >>]
  /\ selectedDate = [c \in Clients |-> Today]
  /\ syncs = [c \in Clients |-> [stage |-> "done", rows |-> NoCache]]
  /\ fetches = [c \in Clients |-> NoFetch]
  /\ casts = {}
  /\ ncasts = 0
  /\ probe = NoProbe
  /\ reached = {}
  /\ upvotes \in 0..MaxVotes
  /\ downvotes \in 0..MaxVotes
  /\ marker = << >>
  /\ InitForm
  /\ InitComments
  /\ InitMap

RenderMarker ==
  /\ marker = << >>
  /\ marker' = <<MarkerRender(upvotes, downvotes)>>
  /\ UNCHANGED <<dbvars, clientvars, casts, ncasts, histvars, upvotes, downvotes, lifevars,
                 feedvars,
                 commentvars>>

\* handleVote of a user without a vote (voteCounts[id] undefined), type up,
\* from the popup of the rendered marker: the batch executes, the read
\* completes and the marker is rendered from the new counters.  marker keeps
\* the render before the cast behind the new one.
NewUpvote == [currentVote |-> NoVote, type |-> "up"]

CastUpvote ==
  /\ marker # << >> /\ marker[1].rendered
  /\ upvotes < MaxVotes
  /\ LET row == UpdateLocationsRow(NewUpvote, [upvotes |-> upvotes, downvotes |-> downvotes])
     IN /\ upvotes' = row.upvotes
        /\ downvotes' = row.downvotes
        /\ marker' = <<MarkerRender(row.upvotes, row.downvotes), marker[1]>>
  /\ UNCHANGED <<dbvars, clientvars, casts, ncasts, histvars, lifevars,
                 feedvars,
                 commentvars>>

NextRender == RenderMarker \/ CastUpvote

SpecRender == InitRender /\ [][NextRender]_vars

\* The life of the spots: one client (c1) with its add form and the clock;
\* the store starts empty or with one older spot.
Submitters == {"c1"}

OlderRows ==
  {[InitRow("s1") EXCEPT !.date = d, !.expiry_date = e,
                         !.created_at = d * TicksPerDay + 1] :
     d \in {Yesterday}, e \in {NoExpiry, EmptyExpiry, Yesterday, Today, Today + 1}}

InitLife ==
  /\ \/ locations = << >>
     \/ \E row \in OlderRows : locations = ("s1" :> row)
  /\ votes = [k \in VoteKeys |-> 0]
  /\ others = [s \in Spots |-> [upvotes |-> 0, downvotes |-> 0]]
  /\ userOf = [c \in Clients |-> IF c = "c1" THEN "u1" ELSE "u2"]
  /\ voteCounts = [c \in Clients |-> NoCache]
  /\ shown = [c \in Clients |-> IF c = "c1" THEN SelectLocations(Today) ELSE << >>]
  /\ listed \in [Clients -> OrderByCreatedAtDesc(Today) \cup {<< >>}]
  /\ \A c \in Clients : Len(listed[c]) = Cardinality(DOMAIN shown[c])
  /\ selectedDate = [c \in Clients |-> Today]
  /\ syncs = [c \in Clients |-> [stage |-> "done", rows |-> NoCache]]
  /\ fetches = [c \in Clients |-> NoFetch]
  /\ casts = {}
  /\ ncasts = 0
  /\ probe = NoProbe
  /\ reached = {}
  /\ upvotes = 0 /\ downvotes = 0 /\ marker = << >>
  /\ InitForm
  /\ InitComments
  /\ InitMap

NextLife ==
  /\ \/ Tick
     \/ \E c \in Submitters, d \in Days : FetchLocationsDone(c, d)
     \/ \E c \in Submitters, d \in Days : FetchLocationsFail(c, d)
     \/ \E c \in Submitters : OpenAddForm(c)
     \/ \E c \in Submitters : ConfirmLocation(c)
     \/ \E c \in Submitters : BackToLocation(c)
     \/ \E c \in Submitters : CancelAdd(c)
     \/ \E c \in Submitters, n \in Names : SetName(c, n)
     \/ \E c \in Submitters, e \in {EmptyExpiry, DayOf(clock) + 1} : SetExpiry(c, e)
     \/ \E c \in Submitters : HandleAddSubmit(c)
     \/ \E a \in adds, area \in {Suburb, FallbackArea} : GeocodeRespond(a, area)
     \/ \E a \in adds : GeocodeFail(a)
     \/ \E a \in adds : InsertCommit(a)
     \/ \E a \in adds : InsertFail(a)
     \/ \E a \in adds : HandleAddSubmitResume(a)
  /\ UNCHANGED histvars

SpecLife == InitLife /\ [][NextLife]_vars

\* The same with what the runtime guarantees: the database answers every
\* statement it was sent (with a result or an error) and a continuation whose
\* promise has settled is run.  Nothing makes the reverse geocoder answer:
\* fetch has no timeout and no AbortController.
SpecLifeFair ==
  /\ SpecLife
  /\ WF_vars(/\ \E a \in adds : InsertCommit(a) \/ InsertFail(a)
             /\ UNCHANGED histvars)
  /\ WF_vars(/\ \E a \in adds : HandleAddSubmitResume(a)
             /\ UNCHANGED histvars)
  /\ WF_vars(/\ \E c \in Submitters, d \in Days :
                  FetchLocationsDone(c, d) \/ FetchLocationsFail(c, d)
             /\ UNCHANGED histvars)

\* The reads: a store of two spots created yesterday or today, s1 before s2 or
\* in the same second, with any expiry; one client (c1) clicks the date
\* buttons while the clock runs.
Expiries == {NoExpiry, EmptyExpiry, Yesterday, Today, Today + 1}

StoredRow(rowid, t, e) ==
  [InitRow("s1") EXCEPT !.rowid = rowid, !.created_at = t, !.date = DayOf(t),
                        !.expiry_date = e]

InitRead ==
  /\ \E t1, t2 \in (Yesterday * TicksPerDay)..FirstTick, e1, e2 \in Expiries :
       /\ t1 <= t2
       /\ locations = ("s1" :> StoredRow(1, t1, e1)) @@ ("s2" :> StoredRow(2, t2, e2))
  /\ votes = [k \in VoteKeys |-> 0]
  /\ others = [s \in Spots |-> [upvotes |-> 0, downvotes |-> 0]]
  /\ userOf = [c \in Clients |-> IF c = "c1" THEN "u1" ELSE "u2"]
  /\ voteCounts = [c \in Clients |-> NoCache]
  /\ shown = [c \in Clients |-> IF c = "c1" THEN SelectLocations(Today) ELSE << >>]
  /\ listed \in [Clients -> OrderByCreatedAtDesc(Today) \cup {<< >>}]
  /\ \A c \in Clients : Len(listed[c]) = Cardinality(DOMAIN shown[c])
  /\ selectedDate = [c \in Clients |-> Today]
  /\ syncs = [c \in Clients |-> [stage |-> "done", rows |-> NoCache]]
  /\ fetches = [c \in Clients |-> NoFetch]
  /\ casts = {}
  /\ ncasts = 0
  /\ probe = NoProbe
  /\ reached = {}
  /\ upvotes = 0 /\ downvotes = 0 /\ marker = << >>
  /\ InitForm
  /\ InitComments
  /\ InitMap

NextRead ==
  /\ \/ Tick
     \/ \E c \in Submitters, offset \in {-1, 0} : SelectDate(c, offset)
     \/ \E c \in Submitters, d \in Days : FetchLocationsDone(c, d)
     \/ \E c \in Submitters, d \in Days : FetchLocationsFail(c, d)
  /\ UNCHANGED histvars

SpecRead == InitRead /\ [][NextRead]_vars

\* The reads when the database answers every one of them with a result.
NextReadAnswered ==
  /\ \/ Tick
     \/ \E c \in Submitters, offset \in {-1, 0} : SelectDate(c, offset)
     \/ \E c \in Submitters, d \in Days : FetchLocationsDone(c, d)
  /\ UNCHANGED histvars

SpecReadAnswered == InitRead /\ [][NextReadAnswered]_vars

\* The landmark feed: one client (c1) whose MosqueDetector has just been
\* mounted (its effect has sent the first query) and whose map is moved.
InitFeed ==
  /\ locations = << >>
  /\ votes = [k \in VoteKeys |-> 0]
  /\ others = [s \in Spots |-> [upvotes |-> 0, downvotes |-> 0]]
  /\ userOf = [c \in Clients |-> IF c = "c1" THEN "u1" ELSE "u2"]
  /\ voteCounts = [c \in Clients |-> NoCache]
  /\ shown = [c \in Clients |-> << >>]
  /\ listed = [c \in Clients |-> << >>]
  /\ selectedDate = [c \in Clients |-> Today]
  /\ syncs = [c \in Clients |-> [stage |-> "done", rows |-> NoCache]]
  /\ fetches = [c \in Clients |-> NoFetch]
  /\ casts = {}
  /\ ncasts = 0
  /\ probe = NoProbe
  /\ reached = {}
  /\ upvotes = 0 /\ downvotes = 0 /\ marker = << >>
  /\ InitForm
  /\ InitComments
  /\ \E p \in Positions :
       /\ mapPos = [c \in Clients |-> p]
       /\ mapCenter = [c \in Clients |-> PosCoord(p)]
       /\ lastCenter = [c \in Clients |-> IF c = "c1" THEN p ELSE NoCenter]
       /\ mosqueFetches = {[n |-> 0, client |-> "c1", center |-> p]}
  /\ detectedMosques = [c \in Clients |-> {}]
  /\ overpassLog = [c \in Clients |-> 0]
  /\ nmoves = 0

NextFeed ==
  /\ \/ \E c \in Submitters, p \in Positions : MoveEnd(c, p)
     \/ \E r \in mosqueFetches : OverpassRespond(r)
     \/ \E r \in mosqueFetches : OverpassFail(r)
  /\ UNCHANGED histvars

SpecFeed == InitFeed /\ [][NextFeed]_vars


\* Suggestions and the add flow: one client (c1) whose map shows the viewport
\* at position 0 with the suggestion found there; the store is empty.  The
\* user clicks suggestions, fills and submits the form and clicks the date
\* buttons.
InitSuggest ==
  /\ locations = << >>
  /\ votes = [k \in VoteKeys |-> 0]
  /\ others = [s \in Spots |-> [upvotes |-> 0, downvotes |-> 0]]
  /\ userOf = [c \in Clients |-> IF c = "c1" THEN "u1" ELSE "u2"]
  /\ voteCounts = [c \in Clients |-> NoCache]
  /\ shown = [c \in Clients |-> << >>]
  /\ listed = [c \in Clients |-> << >>]
  /\ selectedDate = [c \in Clients |-> Today]
  /\ syncs = [c \in Clients |-> [stage |-> "done", rows |-> NoCache]]
  /\ fetches = [c \in Clients |-> NoFetch]
  /\ casts = {}
  /\ ncasts = 0
  /\ probe = NoProbe
  /\ reached = {}
  /\ upvotes = 0 /\ downvotes = 0 /\ marker = << >>
  /\ InitForm
  /\ InitComments
  /\ mapPos = [c \in Clients |-> 0]
  /\ mapCenter = [c \in Clients |-> PosCoord(0)]
  /\ lastCenter = [c \in Clients |-> IF c = "c1" THEN 0 ELSE NoCenter]
  /\ detectedMosques = [c \in Clients |-> IF c = "c1" THEN Feed(0) ELSE {}]
  /\ mosqueFetches = {}
  /\ overpassLog = [c \in Clients |-> 0]
  /\ nmoves = 0

NextSuggest ==
  /\ \/ \E c \in Submitters, offset \in {-1, 0} : SelectDate(c, offset)
     \/ \E c \in Submitters, d \in Days : FetchLocationsDone(c, d)
     \/ \E c \in Submitters, d \in Days : FetchLocationsFail(c, d)
     \/ \E c \in Submitters, m \in Mosques : AcceptSuggestion(c, m)
     \/ \E c \in Submitters : OpenAddForm(c)
     \/ \E c \in Submitters : ConfirmLocation(c)
     \/ \E c \in Submitters : BackToLocation(c)
     \/ \E c \in Submitters : CancelAdd(c)
     \/ \E c \in Submitters : HandleAddSubmit(c)
     \/ \E a \in adds, area \in {Suburb, FallbackArea} : GeocodeRespond(a, area)
     \/ \E a \in adds : GeocodeFail(a)
     \/ \E a \in adds : InsertCommit(a)
     \/ \E a \in adds : InsertFail(a)
     \/ \E a \in adds : HandleAddSubmitResume(a)
  /\ UNCHANGED histvars

SpecSuggest == InitSuggest /\ [][NextSuggest]_vars

\* The suggestion render on its own: the store holds one spot near mosque-0
\* (or 500 m from it); client c1 has just been mounted, its first read and
\* the first query of its MosqueDetector are in flight.  An offset of exactly
\* 0.0001 degree is left out: there the rounding of the subtraction decides.
NearOffsets == {-11, -9, 0, 5, 9, 11, 2 * LngPer250m}

InitDedupe ==
  /\ \E dlat, dlng \in NearOffsets :
       locations = ("s1" :> [InitRow("s1") EXCEPT
                               !.lat = MosqueCoord("mosque-0").lat + dlat,
                               !.lng = MosqueCoord("mosque-0").lng + dlng])
  /\ votes = [k \in VoteKeys |-> 0]
  /\ others = [s \in Spots |-> [upvotes |-> 0, downvotes |-> 0]]
  /\ userOf = [c \in Clients |-> IF c = "c1" THEN "u1" ELSE "u2"]
  /\ voteCounts = [c \in Clients |-> NoCache]
  /\ shown = [c \in Clients |-> << >>]
  /\ listed = [c \in Clients |-> << >>]
  /\ selectedDate = [c \in Clients |-> Today]
  /\ syncs = [c \in Clients |-> [stage |-> "done", rows |-> NoCache]]
  /\ fetches = [c \in Clients |-> IF c = "c1" THEN [NoFetch EXCEPT ![Today] = 1]
                                   ELSE NoFetch]
  /\ casts = {}
  /\ ncasts = 0
  /\ probe = NoProbe
  /\ reached = {}
  /\ upvotes = 0 /\ downvotes = 0 /\ marker = << >>
  /\ InitForm
  /\ InitComments
  /\ mapPos = [c \in Clients |-> 0]
  /\ mapCenter = [c \in Clients |-> PosCoord(0)]
  /\ lastCenter = [c \in Clients |-> IF c = "c1" THEN 0 ELSE NoCenter]
  /\ mosqueFetches = {[n |-> 0, client |-> "c1", center |-> 0]}
  /\ detectedMosques = [c \in Clients |-> {}]
  /\ overpassLog = [c \in Clients |-> 0]
  /\ nmoves = 0

NextDedupe ==
  /\ \/ \E c \in Submitters, d \in Days : FetchLocationsDone(c, d)
     \/ \E c \in Submitters, d \in Days : FetchLocationsFail(c, d)
     \/ \E r \in mosqueFetches : OverpassRespond(r)
     \/ \E r \in mosqueFetches : OverpassFail(r)
  /\ UNCHANGED histvars

SpecDedupe == InitDedupe /\ [][NextDedupe]_vars

\* The comment box: both clients have read the two spots of the store; their
\* users open detail sheets, type and send.
InitComment ==
  /\ locations = [s \in Spots |-> InitRow(s)]
  /\ votes = [k \in VoteKeys |-> 0]
  /\ others = [s \in Spots |-> [upvotes |-> InitRow(s).upvotes,
                                downvotes |-> InitRow(s).downvotes]]
  /\ userOf = [c \in Clients |-> IF c = "c1" THEN "u1" ELSE "u2"]
  /\ voteCounts = [c \in Clients |-> NoCache]
  /\ shown = [c \in Clients |-> SelectLocations(Today)]
  /\ listed \in [Clients -> OrderByCreatedAtDesc(Today)]
  /\ selectedDate = [c \in Clients |-> Today]
  /\ syncs = [c \in Clients |-> [stage |-> "done", rows |-> NoCache]]
  /\ fetches = [c \in Clients |-> NoFetch]
  /\ casts = {}
  /\ ncasts = 0
  /\ probe = NoProbe
  /\ reached = {}
  /\ upvotes = 0 /\ downvotes = 0 /\ marker = << >>
  /\ InitForm
  /\ InitComments
  /\ InitMap

NextComment ==
  /\ \/ \E c \in Clients, id \in Spots : SelectLocation(c, id)
     \/ \E c \in Clients : CloseDetail(c)
     \/ \E c \in Clients, text \in CommentTexts : SetNewComment(c, text)
     \/ \E c \in Clients : SendComment(c)
  /\ UNCHANGED histvars

SpecComment == InitComment /\ [][NextComment]_vars

\* ================================================================= claims
Committed(k) == k \in casts /\ k.stage = "sent" /\ [k EXCEPT !.stage = "ok"] \in casts'

\* C1: every spot's upvotes equals the number of rows of table votes for that
\* spot with vote_type up, and its downvotes the number with vote_type down.
C1_CountersEqualLedger ==
  \A s \in Spots, type \in Dirs : locations[s][Field(type)] = RowsOfType(s, type)

\* C2: table votes holds at most one row per (location_id, user_id).
C2_OneRowPerSpotAndUser ==
  \A s \in Spots, u \in Users : RowsOf(s, u) <= 1

\* C3: toggle law.  A user without a vote on a spot casts the same direction
\* twice in a row: counters and ledger are as before the first cast.
C3_ToggleLaw ==
  (probe.stage = "done" /\ probe.first = probe.second) =>
    /\ locations[probe.id].upvotes = probe.upvotes
    /\ locations[probe.id].downvotes = probe.downvotes
    /\ RowsOf(probe.id, probe.user) = 0

\* C4: a user without a vote on a spot casts one direction and then the
\* opposite one: the first counter is back to its value, the second is one
\* higher, and the single row of the user carries the second direction.
C4_OppositeCastsLeaveOneVote ==
  (probe.stage = "done" /\ probe.first # probe.second) =>
    /\ locations[probe.id][Field(probe.first)] = probe[Field(probe.first)]
    /\ locations[probe.id][Field(probe.second)] = probe[Field(probe.second)] + 1
    /\ votes[<<probe.id, probe.user, probe.second>>] = 1
    /\ votes[<<probe.id, probe.user, probe.first>>] = 0

\* The branches the ledger calls for when user u casts type on spot s.
LedgerBranches(s, u, type) ==
  IF RowsOf(s, u) = 0 THEN {"new"}
  ELSE {b \in {"remove", "change"} :
          \/ b = "remove" /\ votes[<<s, u, type>>] > 0
          \/ b = "change" /\ votes[<<s, u, Opposite(type)>>] > 0}

\* C5: a cast is one atomic unit: the branch it writes is the branch the
\* ledger calls for at the moment its batch executes, so that concurrent casts
\* of one user on one spot add up to some serial order of them.
C5_CastIsAtomic ==
  [][\A k \in casts : Committed(k) =>
       Branch(k.currentVote, k.type) \in LedgerBranches(k.id, k.userId, k.type)]_vars

\* C6: no lost update and no blocking.  When a batch executes, the counters of
\* its spot move by exactly that cast's own step from their current values
\* (what casts of other users committed in the meantime stays counted), rows
\* of other users and other spots are untouched, and a cast in flight can
\* always take its next step, whatever other casts are in flight.
C6_ConcurrentCastsAllCount ==
  /\ [][\A k \in casts : Committed(k) =>
          LET s == k.id
              b == Branch(k.currentVote, k.type)
              new == Field(k.type)
              old == Field(Opposite(k.type))
              less(x) == IF x = 0 THEN 0 ELSE x - 1
          IN /\ \A x \in Spots \ {s} : locations'[x] = locations[x]
             /\ \A key \in VoteKeys :
                  (key[1] # s \/ key[2] # k.userId) => votes'[key] = votes[key]
             /\ b = "new" => /\ locations'[s][new] = locations[s][new] + 1
                             /\ locations'[s][old] = locations[s][old]
             /\ b = "remove" => /\ locations'[s][new] = less(locations[s][new])
                                /\ locations'[s][old] = locations[s][old]
             /\ b = "change" => /\ locations'[s][new] = locations[s][new] + 1
                                /\ locations'[s][old] = less(locations[s][old])]_vars
  /\ [](\A k \in casts : /\ k.stage = "sent" => ENABLED BatchCommit(k)
                         /\ k.stage = "ok" => ENABLED HandleVoteResume(k))

\* Two casts of different users on one spot were in flight together, both
\* batches have executed, and both new votes are counted.
C6_Witness ==
  \E k1, k2 \in casts :
    /\ k1.userId # k2.userId /\ k1.id = k2.id /\ k1.type = k2.type
    /\ k1.stage = "ok" /\ k2.stage = "ok"
    /\ Branch(k1.currentVote, k1.type) = "new" /\ Branch(k2.currentVote, k2.type) = "new"
    /\ locations[k1.id][Field(k1.type)] = others[k1.id][Field(k1.type)] + 2

\* C7: every spot's upvotes and downvotes are >= 0.
C7_CountersNonNegative ==
  \A s \in Spots : locations[s].upvotes >= 0 /\ locations[s].downvotes >= 0

\* A retraction has been committed on a counter that now stands at 0 while
\* another client of the same user had already retracted that vote.
C7_Witness ==
  \E k \in casts :
    /\ k.stage = "ok" /\ Branch(k.currentVote, k.type) = "remove"
    /\ locations[k.id][Field(k.type)] = 0
    /\ \E c \in Clients \ {k.client} :
         userOf[c] = k.userId /\ voteCounts[c][k.id] = NoVote /\ syncs[c].stage = "done"

\* The classification a rendered marker stands for.
Classification(m) ==
  IF ~m.rendered THEN "DELETE"
  ELSE IF m.blurred THEN "SUPPRESSED"
  ELSE IF m.red THEN "FLAGGED"
  ELSE "NORMAL"

\* C8: the classification is DELETE when downvotes >= 20, otherwise
\* SUPPRESSED when downvotes >= 10, otherwise FLAGGED when
\* downvotes - upvotes >= 5, otherwise NORMAL.
C8_Classification ==
  marker # << >> =>
    Classification(marker[1]) =
      IF downvotes >= 20 THEN "DELETE"
      ELSE IF downvotes >= 10 THEN "SUPPRESSED"
      ELSE IF downvotes - upvotes >= 5 THEN "FLAGGED"
      ELSE "NORMAL"

\* The boundary of FLAGGED has been rendered: downvotes - upvotes = 5.
C8_Witness ==
  /\ marker # << >> /\ downvotes - upvotes = 5 /\ downvotes < 10
  /\ Classification(marker[1]) = "FLAGGED"

\* C9: no spot with downvotes >= 20 is presented, neither as a marker nor as
\* a list card.
C9_DeletedNeverPresented ==
  \A c \in Clients : \A s \in Markers(c) \cup ListCards(c) :
    ~shouldDelete(shown[c][s].downvotes)

\* C10: after a read of the visible spots completes, the store holds no spot
\* with downvotes >= 20.
C10_ReadPurgesDeleted ==
  [][(\E c \in Clients, d \in DateButtons : FetchLocationsDone(c, d)) =>
       \A s \in DOMAIN locations' : ~shouldDelete(locations'[s].downvotes)]_vars

\* C11: DELETE is terminal.  Once the stored downvotes of a spot have reached
\* 20, no later read lists it, neither as a marker nor as a list card,
\* whatever was cast in between (a retraction may have brought it back to 19).
C11_DeleteIsTerminal ==
  [][\A c \in Clients, d \in DateButtons : FetchLocationsDone(c, d) =>
       \A s \in reached : s \notin (Markers(c) \cup ListCards(c))']_vars

\* The counters of a row after n upvotes of users who had no vote on it.
RECURSIVE AfterUpvotes(_, _)
AfterUpvotes(row, n) ==
  IF n = 0 THEN row ELSE AfterUpvotes(UpdateLocationsRow(NewUpvote, row), n - 1)

C13_ReadReturnsVisible ==
  [][\A c \in Clients, d \in Days : FetchLocationsDone(c, d) =>
       /\ DOMAIN shown'[c] =
            {s \in DOMAIN locations :
               /\ locations[s].date <= d
               /\ \/ locations[s].expiry_date \in {NoExpiry, EmptyExpiry}
                  \/ locations[s].expiry_date >= d}
       /\ \A s \in DOMAIN shown'[c] : shown'[c][s] = locations[s]
       /\ \A s \in DOMAIN locations :
            /\ (locations[s].expiry_date \in Days /\ locations[s].expiry_date = d - 1) =>
                 s \notin DOMAIN shown'[c]
            /\ (locations[s].expiry_date = d /\ locations[s].date <= d) =>
                 s \in DOMAIN shown'[c]]_vars

\* A read for today has completed: it shows the spot that expires today and
\* not the stored one that expired yesterday.
C13_Witness ==
  /\ selectedDate["c1"] = DayOf(clock) /\ nclicks > 0
  /\ \A d \in Days : fetches["c1"][d] = 0
  /\ "s1" \notin DOMAIN shown["c1"] /\ locations["s1"].expiry_date = DayOf(clock) - 1
  /\ "s2" \in DOMAIN shown["c1"] /\ locations["s2"].expiry_date = DayOf(clock)

C15_NewestFirst ==
  [][\A c \in Clients, d \in Days : FetchLocationsDone(c, d) =>
       \A i, j \in 1..Len(listed'[c]) :
         i < j => locations[listed'[c][i]].rowid > locations[listed'[c][j]].rowid]_vars

\* C16: a spot submitted with the expiry field as the form gave it (or
\* cleared) lives one day: it is listed for its creation day and for no
\* reference date after it.
C16_DefaultExpiryIsOneDay ==
  [][\A a \in adds :
       (InsertCommit(a) /\ a.expiry_date \in {EmptyExpiry, DayOf(FirstTick)}) =>
         LET row == locations'[a.id]
         IN \A d \in Days : d >= row.date => (Visible(row, d) <=> d = row.date)]_vars

\* C17: a submission whose name is empty or blank writes nothing: table
\* locations, the result of a read for any date, addedIds and the
\* submissions in flight are as before, and no blank name is ever on its way
\* to the table or in it.
C17_BlankNameRejected ==
  /\ [][\A c \in Clients :
          (HandleAddSubmit(c) /\ newLocation[c].name \in {"", " "}) =>
            /\ locations' = locations
            /\ \A d \in Days : /\ SelectLocations(d)' = SelectLocations(d)
                               /\ OrderByCreatedAtDesc(d)' = OrderByCreatedAtDesc(d)
            /\ addedIds' = addedIds
            /\ adds' = adds /\ fetches' = fetches]_vars
  /\ [](\A a \in adds : a.name \notin {"", " "})
  /\ [](\A s \in DOMAIN locations : locations[s].name \notin {"", " "})

\* A blank name has been submitted and rejected with its toast, while the
\* form is still open and nothing was added.
C17_Witness ==
  /\ toast["c1"] = ToastName
  /\ newLocation["c1"].name = " "
  /\ showAddForm["c1"] /\ addFlowStep["c1"] = "details"
  /\ adds = {} /\ addedIds["c1"] = << >>

\* C18: when the reverse geocoder fails during a submission with a valid
\* name, the submission goes on to its INSERT with the fallback area label.
C18_GeocoderFailureFallsBack ==
  [][\A a \in adds : GeocodeFail(a) =>
       \E b \in adds' : b.n = a.n /\ b.stage = "inserting" /\ b.area = FallbackArea]_vars

\* C19: a submission with a valid name eventually completes (its row is
\* inserted or an error is reported), also when the reverse geocoder never
\* answers.
C19_SubmissionCompletes ==
  \A n \in 1..MaxAdds : (\E a \in adds : a.n = n) ~> ~(\E a \in adds : a.n = n)

\* C20 as stated: after a failed landmark request the suggestions are empty
\* (none of an earlier viewport is left), and the request is not sent again.
C20_FailureLeavesNoSuggestion ==
  [][\A r \in mosqueFetches : OverpassFail(r) =>
       /\ detectedMosques'[r.client] = {}
       /\ mosqueFetches' = mosqueFetches \ {r}]_vars

\* C20 amended: a failed landmark request adds no suggestion and removes
\* none: the suggestions on display are exactly those of before (those of an
\* earlier viewport stay), and the request is not sent again.
C20_FailureAddsNoSuggestion ==
  [][\A r \in mosqueFetches : OverpassFail(r) =>
       /\ detectedMosques' = detectedMosques
       /\ mosqueFetches' = mosqueFetches \ {r}
       /\ lastCenter' = lastCenter]_vars

\* The request for the viewport the map is in now has failed; the suggestion
\* found for an earlier viewport is still on display.
C20_Witness ==
  /\ overpassLog["c1"] > 0
  /\ mosqueFetches = {}
  /\ lastCenter["c1"] = mapPos["c1"]
  /\ detectedMosques["c1"] # {}
  /\ detectedMosques["c1"] \cap Feed(mapPos["c1"]) = {}

\* The vote cache of client c says, spot by spot, what table votes records
\* for the client's user id: no entry where there is no row, and otherwise
\* the direction of the rows there are.
CacheMatchesLedger(c) ==
  \A s \in Spots :
    IF voteCounts[c][s] = NoVote
      THEN RowsOf(s, userOf[c]) = 0
      ELSE /\ votes[<<s, userOf[c], voteCounts[c][s]>>] > 0
           /\ votes[<<s, userOf[c], Opposite(voteCounts[c][s])>>] = 0

\* C25: whenever no vote cast and no syncVotes is in flight, each client's
\* voteCounts equals what table votes records for its user id; in particular
\* a syncVotes that completes after a vote cast in the meantime does not
\* overwrite the cache with a snapshot that misses that vote: when no cast is
\* in flight and the cache matches the ledger, it still does after
\* setVoteCounts(votes) of syncVotes.
C25_SyncKeepsCastVote ==
  [][\A c \in Clients :
       (SyncVotesDone(c) /\ casts = {} /\ CacheMatchesLedger(c))
         => CacheMatchesLedger(c)']_vars

\* C26: if the batch of a vote cast fails, nothing changes: a cast that ends
\* without its batch having committed leaves table locations and table votes
\* as they were, leaves every client's vote cache and displayed rows as they
\* were and starts no read.
C26_FailedBatchChangesNothing ==
  [][\A k \in casts :
       (k.stage = "sent" /\ casts' = casts \ {k})
         => UNCHANGED <<locations, votes, others, voteCounts, shown, fetches>>]_vars

\* The only cast of the run so far has ended and its batch had failed: u1's
\* upvote on s1 from before the run is still stored and counted (a cast of u1
\* on s1 that succeeds removes or changes it), and the cast was not followed
\* to its commit (a cast of a user without a row that succeeds is).
C26_Witness ==
  /\ ncasts = 1 /\ casts = {}
  /\ probe.stage = "void"
  /\ votes[<<"s1", "u1", "up">>] = 1
  /\ locations["s1"].upvotes = 1

\* C27: once all reads in flight have completed (each with a result), the
\* rows on display are the result of the read for the date selected now; the
\* answer to a read for a date selected earlier does not replace it.
C27_DisplayIsForSelectedDate ==
  \A c \in Submitters :
    (\A d \in Days : fetches[c][d] = 0) => shown[c] = SelectLocations(selectedDate[c])

\* C28: once all landmark requests in flight have completed (none of them
\* failed), the stored candidate set is the response to the request issued
\* last, the one for lastCenter.
C28_CandidatesAreLatestResponse ==
  \A c \in Submitters :
    (/\ \A r \in mosqueFetches : r.client # c
     /\ overpassLog[c] = 0
     /\ lastCenter[c] # NoCenter)
      => detectedMosques[c] = Feed(lastCenter[c])

\* C29: every spot the create flow inserts has an expiry date on or after its
\* creation date, so the read for its creation day returns it; this holds
\* also when the day changes between the moment the form's default expiry was
\* initialised and the submission.
C29_InsertedSpotIsVisibleOnItsDay ==
  [][\A a \in adds : InsertCommit(a) =>
       LET row == locations'[a.id] IN
       /\ row.expiry_date >= row.date
       /\ Visible(row, row.date)]_vars

\* The spot was created at the coordinates of candidate m.
SeededFrom(row, m) == row.lat = MosqueCoord(m).lat /\ row.lng = MosqueCoord(m).lng

\* C22: accepting a suggestion seeds the form with the candidate's name and
\* coordinates, and once a spot created from a candidate exists in the store,
\* that candidate is not offered again, whichever date the reader has
\* selected: checked in the states where no submission and no read is in
\* flight and the list on display is the current result of the read for the
\* selected date.
C22_AcceptedCandidateNotOfferedAgain ==
  \A c \in Submitters, m \in Mosques :
    (/\ adds = {}
     /\ \A d \in Days : fetches[c][d] = 0
     /\ shown[c] = SelectLocations(selectedDate[c])
     /\ \E s \in DOMAIN locations : SeededFrom(locations[s], m))
      => m \notin Suggestions(c)

\* C30: in every reachable state of the add flow, a closed form is at the
\* location step: cancel, backdrop and the successful submission all reset
\* addFlowStep when they close the form.
C30_ClosedFormIsAtLocationStep ==
  \A c \in Clients : ~showAddForm[c] => addFlowStep[c] = "location"

\* The form was opened at the details step by a click on a suggestion and has
\* been closed again without a submission: it is back at the location step.
C30_Witness ==
  /\ ~showAddForm["c1"]
  /\ toast["c1"] = ToastSuggest
  /\ adds = {} /\ nadds = 0
  /\ addFlowStep["c1"] = "location"

\* Distance on the ground, in decimetres: one unit of latitude is about
\* 1.1 m, one unit of longitude about 1.0 m at the latitude of Dhaka; within
\* the dedupe epsilon means not more than 10 m (100 dm) apart.
WithinEpsilon(row, m) ==
  LET dy == 11 * (row.lat - MosqueCoord(m).lat)
      dx == 10 * (row.lng - MosqueCoord(m).lng)
  IN dy * dy + dx * dx <= 100 * 100

\* C21 as stated: a candidate is suppressed exactly when some spot of the
\* list lies within the dedupe epsilon (about 10 m) of it; a candidate with
\* no spot within the epsilon is offered.
C21_SuppressedIffWithinEpsilon ==
  \A c \in Submitters : \A m \in detectedMosques[c] :
    m \notin Suggestions(c) <=> \E s \in DOMAIN shown[c] : WithinEpsilon(shown[c][s], m)

\* C21 amended: a candidate is suppressed exactly when some spot of the list
\* on display differs from it by less than 0.0001 degree in latitude and by
\* less than 0.0001 degree in longitude; every other candidate is offered.
C21_SuppressedIffWithinBox ==
  \A c \in Submitters : \A m \in detectedMosques[c] :
    m \notin Suggestions(c) <=>
      \E s \in DOMAIN shown[c] :
        /\ Abs(shown[c][s].lat - MosqueCoord(m).lat) < DedupeEpsilon
        /\ Abs(shown[c][s].lng - MosqueCoord(m).lng) < DedupeEpsilon

\* mosque-0 has been found and is suppressed by a spot of the list that lies
\* more than the epsilon away from it (near a corner of the square).
C21_Witness ==
  /\ "mosque-0" \in detectedMosques["c1"]
  /\ "mosque-0" \notin Suggestions("c1")
  /\ \A s \in DOMAIN shown["c1"] : ~WithinEpsilon(shown["c1"][s], "mosque-0")

\* C23: a comment whose text is empty or blank is rejected and nothing is
\* written: table comments is as before, nothing is reported as added and
\* the box keeps its text.
C23_BlankCommentRejected ==
  [][\A c \in Clients :
       (SendComment(c) /\ newComment[c] \in {"", " "}) =>
         /\ comments' = comments
         /\ toast' = toast
         /\ newComment' = newComment]_vars

\* The send button has been clicked, and only on blank texts (an accepted
\* send leaves its toast): nothing is stored, nothing was reported and the
\* blank text is still in the box of c1's detail sheet.
C23_Witness ==
  /\ nsends > 0
  /\ \A c \in Clients : toast[c] = NoToast
  /\ selectedLocation["c1"] # NoSelection /\ newComment["c1"] = " "
  /\ comments = {}

\* C24: every comment sent with a non-empty text on the detail sheet of a spot
\* is appended to that spot's thread in table comments (and so is in every
\* later list of the spot's comments).
C24_SentCommentIsStored ==
  [][\A c \in Clients :
       (SendComment(c) /\ Trim(newComment[c]) # "") =>
         [location_id |-> selectedLocation[c], text |-> newComment[c]] \in comments']_vars

====
